---- MODULE Spec2Model ----
(***************************************************************************)
(* Transactional execution layer of D1sordxr/package:                      *)
(*   postgres/executor  (Manager, BatchExecutor, PoolExecutor)             *)
(*   postgres/uow and postgres/unit-of-work (UnitOfWorkImpl)               *)
(* Contexts are chains of context.WithValue nodes; the store (pgx) is a    *)
(* black box whose answers are inputs of the actions.  Every action is one *)
(* whole call of a method; `last` records what that call did: the store    *)
(* calls it made, in order, and what it returned.                          *)
(* Beside it: logger.AsyncLogger with its goroutines (`async`) and         *)
(* kafka/consumer.Consumer.Consume (`consumer`), step by step.             *)
(***************************************************************************)
EXTENDS Integers, Sequences, FiniteSets, TLC

\* ---- bounds
MaxTx    == 2   \* transaction handles the store may open
MaxBatch == 1   \* BatchExecutor objects that may exist
MaxLen   == 2   \* statements queued in one pgx.Batch
BufferSize == 1 \* Config.BufferSize, the capacity of logChan
MaxMsgs  == 3   \* logging calls made on one AsyncLogger
MaxReads == 3   \* calls of Reader.ReadMessage before the context is cancelled

VARIABLES
  ctxs,      \* Seq of WithValue nodes; context id i >= 1 is ctxs[i], id 0 is context.Background()
  txs,       \* Seq of store-side transaction states; handle id t >= 1 is txs[t], 0 is nil
  batches,   \* Seq of accumulators (BatchExecutor.Batch); id b >= 1, 0 is nil
  last,      \* what the last call did
  async,     \* an AsyncLogger: its fields, its goroutines, and what they have done
  consumer   \* a call of Consumer.Consume: its position, and what it has done

vars == <<ctxs, txs, batches, last, async, consumer>>

\* keys of the scope carriers
txKey    == "txKey"
batchKey == "batchKey"

\* sentinel errors of the unit-of-work packages; "nil" is the nil error
ErrTxStartFailed == "ErrTxStartFailed"
ErrNoCommitTx    == "ErrNoCommitTx"
ErrExecBatch     == "ErrExecBatch"
ErrClosingBatch  == "ErrClosingBatch"
ErrCommitTx      == "ErrCommitTx"
ErrNoRollbackTx  == "ErrNoRollbackTx"
ErrRollbackTx    == "ErrRollbackTx"

\* statements a call site may issue (text plus positional arguments)
Statements ==
  { [sql |-> "INSERT INTO t VALUES (1)", args |-> <<>>],
    [sql |-> "SELECT 1",                 args |-> <<>>] }

\* what the store answers to one results.Exec(): success, a statement
\* failure, or a failure caused by cancellation of the caller's context
Outcomes == {"ok", "fail", "cancel"}

\* the contexts a caller can hold: Background and every context a call returned
\* (the context between InjectTx and InjectBatch in BeginWithTxAndBatch is a local)
Contexts == {0} \cup {i \in 1..Len(ctxs) : ctxs[i].returned}

\* one call, as the store (or the callee) sees it
SC(call, tx, idx, stmts, ans) ==
  [call |-> call, tx |-> tx, idx |-> idx, stmts |-> stmts, ans |-> ans]

\* the observation of a call that did nothing
NoObs ==
  [op |-> "Init", pkg |-> "uow", ctx |-> 0, out |-> 0, err |-> "nil",
   cause |-> "none", calls |-> <<>>, variant |-> "none",
   panicIn |-> "none", panicOut |-> "none", errRef |-> "nilRef", errRefAfter |-> "nilRef",
   stmt |-> <<>>, results |-> "none"]

\* ---- executor.Manager: scope carriers

\* a lookup that prefers the binding nearest to the root
RECURSIVE Value_Outermost(_, _, _)
Value_Outermost(cs, c, key) ==
  IF c = 0 THEN 0
  ELSE LET up == Value_Outermost(cs, cs[c].parent, key) IN
       IF up # 0 THEN up
       ELSE IF cs[c].key = key THEN cs[c].val
       ELSE 0

\* ctx.Value(key): the innermost binding of key on the lineage of c, 0 when none
RECURSIVE Value(_, _, _)
Value(cs, c, key) ==
  IF c = 0 THEN 0
  ELSE IF cs[c].key = key THEN cs[c].val
  ELSE Value(cs, cs[c].parent, key)

\* an attach that also rewrites a binding of the same key held by the parent
WithValue_InPlace(cs, c, key, val) ==
  Append(IF c # 0 /\ cs[c].key = key THEN [cs EXCEPT ![c].val = val] ELSE cs,
         [parent |-> c, key |-> key, val |-> val, returned |-> TRUE])

WithValue(cs, c, key, val) ==
  Append(cs, [parent |-> c, key |-> key, val |-> val, returned |-> TRUE])

InjectTx(cs, c, tx) == WithValue(cs, c, txKey, tx)

ExtractTx(cs, c) == LET v == Value(cs, c, txKey) IN [tx |-> v, ok |-> v # 0]

InjectBatch(cs, c, b) == WithValue(cs, c, batchKey, b)

ExtractBatch(cs, c) == LET v == Value(cs, c, batchKey) IN [batch |-> v, ok |-> v # 0]

\* NewBatch(): a fresh BatchExecutor with an empty pgx.Batch
NewBatch(bs) == Append(bs, <<>>)

\* a resolution that looks for the transaction first
GetExecutor_TxFirst(cs, c) ==
  LET b == ExtractBatch(cs, c)
      t == ExtractTx(cs, c)
  IN IF t.ok THEN [variant |-> "Transaction", handle |-> t.tx]
     ELSE IF b.ok THEN [variant |-> "Batch", handle |-> b.batch]
     ELSE [variant |-> "Pool", handle |-> 0]

\* GetExecutor(ctx): batch, else transaction, else a PoolExecutor
GetExecutor(cs, c) ==
  LET b == ExtractBatch(cs, c)
      t == ExtractTx(cs, c)
  IN IF b.ok THEN [variant |-> "Batch", handle |-> b.batch]
     ELSE IF t.ok THEN [variant |-> "Transaction", handle |-> t.tx]
     ELSE [variant |-> "Pool", handle |-> 0]

\* ---- BatchExecutor

\* a queue that puts the new statement first
Queue_Prepend(bs, b, stmt) == [bs EXCEPT ![b] = <<stmt>> \o @]

\* b.Batch.Queue(sql, arguments...)
Queue(bs, b, stmt) == [bs EXCEPT ![b] = Append(@, stmt)]

\* ---- the store (pgx), as far as the layer relies on it

\* a transaction handle that is no longer open answers every call with ErrTxClosed
TxOpen(t) == txs[t] = "open"

\* the answers of a result stream of n results: the stream's error is sticky,
\* so the answers are "ok" up to the first failing result and its error after
Answers(n, firstFail, kind) ==
  [k \in 1..n |-> IF firstFail = 0 \/ k < firstFail THEN "ok" ELSE kind]

StoreAnswers(t, n, firstFail, kind, closeOk, commitOk) ==
  /\ firstFail = 0 => kind = "fail"
  /\ TxOpen(t) \/ (~closeOk /\ ~commitOk /\ kind = "fail" /\ firstFail = (IF n > 0 THEN 1 ELSE 0))

\* the store answers the calls it gets: the answer to a call that is not made
\* is not an input of the run
Asked(calls, call) == \E i \in 1..Len(calls) : calls[i].call = call

Unasked(t, calls, closeOk, commitOk) ==
  /\ (~Asked(calls, "results.Close") /\ TxOpen(t)) => closeOk
  /\ (~Asked(calls, "tx.Commit") /\ TxOpen(t)) => commitOk

Ans(ok) == IF ok THEN "ok" ELSE "fail"

\* ---- unit of work (packages uow and unit_of_work)

\* a BeginWithTx that returns the context it was given, not the derived one
BeginWithTx_ReturnsParent(c, beginOk) ==
  IF ~beginOk
  THEN /\ last' = [NoObs EXCEPT !.op = "BeginWithTx", !.ctx = c, !.out = c,
                     !.err = ErrTxStartFailed, !.cause = "fail",
                     !.calls = <<SC("Begin", 0, 0, <<>>, "fail")>>]
       /\ UNCHANGED <<ctxs, txs, batches>>
  ELSE LET tx == Len(txs) + 1 IN
       /\ Len(txs) < MaxTx
       /\ txs' = Append(txs, "open")
       /\ ctxs' = InjectTx(ctxs, c, tx)
       /\ last' = [NoObs EXCEPT !.op = "BeginWithTx", !.ctx = c, !.out = c,
                     !.calls = <<SC("Begin", tx, 0, <<>>, "ok")>>]
       /\ UNCHANGED batches

\* BeginWithTx(ctx): beginOk is the store's answer to Begin
BeginWithTx(c, beginOk) ==
  IF ~beginOk
  THEN /\ last' = [NoObs EXCEPT !.op = "BeginWithTx", !.ctx = c, !.out = c,
                     !.err = ErrTxStartFailed, !.cause = "fail",
                     !.calls = <<SC("Begin", 0, 0, <<>>, "fail")>>]
       /\ UNCHANGED <<ctxs, txs, batches>>
  ELSE LET tx == Len(txs) + 1 IN
       /\ Len(txs) < MaxTx
       /\ txs' = Append(txs, "open")
       /\ ctxs' = InjectTx(ctxs, c, tx)
       /\ last' = [NoObs EXCEPT !.op = "BeginWithTx", !.ctx = c, !.out = Len(ctxs'),
                     !.calls = <<SC("Begin", tx, 0, <<>>, "ok")>>]
       /\ UNCHANGED batches

\* BeginWithBatch(ctx), package unit_of_work only
BeginWithBatch(c) ==
  LET b == Len(batches) + 1 IN
  /\ Len(batches) < MaxBatch
  /\ batches' = NewBatch(batches)
  /\ ctxs' = InjectBatch(ctxs, c, b)
  /\ last' = [NoObs EXCEPT !.op = "BeginWithBatch", !.pkg = "unit_of_work", !.ctx = c,
                !.out = Len(ctxs')]
  /\ UNCHANGED txs

\* a BeginWithTxAndBatch that attaches an accumulator that exists already
BeginWithTxAndBatch_SharedBatch(c, beginOk) ==
  IF ~beginOk
  THEN /\ last' = [NoObs EXCEPT !.op = "BeginWithTxAndBatch", !.ctx = c, !.out = c,
                     !.err = ErrTxStartFailed, !.cause = "fail",
                     !.calls = <<SC("Begin", 0, 0, <<>>, "fail")>>]
       /\ UNCHANGED <<ctxs, txs, batches>>
  ELSE LET tx == Len(txs) + 1
           b  == IF Len(batches) > 0 THEN 1 ELSE Len(batches) + 1
       IN
       /\ Len(txs) < MaxTx
       /\ batches' = IF Len(batches) > 0 THEN batches ELSE NewBatch(batches)
       /\ txs' = Append(txs, "open")
       /\ ctxs' = InjectBatch([InjectTx(ctxs, c, tx) EXCEPT ![Len(ctxs) + 1].returned = FALSE],
                               Len(ctxs) + 1, b)
       /\ last' = [NoObs EXCEPT !.op = "BeginWithTxAndBatch", !.ctx = c, !.out = Len(ctxs'),
                     !.calls = <<SC("Begin", tx, 0, <<>>, "ok")>>]

\* BeginWithTxAndBatch(ctx)
BeginWithTxAndBatch(c, beginOk) ==
  IF ~beginOk
  THEN /\ last' = [NoObs EXCEPT !.op = "BeginWithTxAndBatch", !.ctx = c, !.out = c,
                     !.err = ErrTxStartFailed, !.cause = "fail",
                     !.calls = <<SC("Begin", 0, 0, <<>>, "fail")>>]
       /\ UNCHANGED <<ctxs, txs, batches>>
  ELSE LET tx == Len(txs) + 1
           b  == Len(batches) + 1
       IN
       /\ Len(txs) < MaxTx
       /\ Len(batches) < MaxBatch
       /\ txs' = Append(txs, "open")
       /\ batches' = NewBatch(batches)
       /\ ctxs' = InjectBatch([InjectTx(ctxs, c, tx) EXCEPT ![Len(ctxs) + 1].returned = FALSE],
                               Len(ctxs) + 1, b)
       /\ last' = [NoObs EXCEPT !.op = "BeginWithTxAndBatch", !.ctx = c, !.out = Len(ctxs'),
                     !.calls = <<SC("Begin", tx, 0, <<>>, "ok")>>]

\* a drain loop that records the first failure and goes on reading
RECURSIVE Drain_ReadsOn(_, _, _, _)
Drain_ReadsOn(i, n, res, calls) ==
  IF i < n
  THEN LET read == Append(calls, SC("results.Exec", 0, i + 1, <<>>, res[i + 1]))
           rest == Drain_ReadsOn(i + 1, n, res, read)
       IN IF res[i + 1] # "ok"
          THEN [calls |-> rest.calls, err |-> ErrExecBatch, cause |-> res[i + 1]]
          ELSE rest
  ELSE [calls |-> calls, err |-> "nil", cause |-> "none"]

\* the drain loop: for i := 0; i < Len; i++ { _, err := results.Exec(); if err != nil { return } }
\* res[k] is the store's answer for the k-th result of the stream
RECURSIVE Drain(_, _, _, _)
Drain(i, n, res, calls) ==
  IF i < n
  THEN LET read == Append(calls, SC("results.Exec", 0, i + 1, <<>>, res[i + 1])) IN
       IF res[i + 1] # "ok"
       THEN [calls |-> read, err |-> ErrExecBatch, cause |-> res[i + 1]]
       ELSE Drain(i + 1, n, res, read)
  ELSE [calls |-> calls, err |-> "nil", cause |-> "none"]

\* a tx.Commit that is tried again when it fails
TxCommit_Retry(t, commitOk, calls) ==
  LET once == Append(calls, SC("tx.Commit", t, 0, <<>>, Ans(commitOk))) IN
  [calls |-> IF commitOk THEN once
             ELSE Append(once, SC("tx.Commit", t, 0, <<>>, Ans(commitOk))),
   err   |-> IF commitOk THEN "nil" ELSE ErrCommitTx,
   cause |-> IF commitOk THEN "none" ELSE "fail"]

\* a tx.Commit whose failure is not returned
TxCommit_Swallow(t, commitOk, calls) ==
  [calls |-> Append(calls, SC("tx.Commit", t, 0, <<>>, Ans(commitOk))),
   err   |-> "nil",
   cause |-> "none"]

\* tx.Commit(ctx) and its error wrapping, after `calls`
TxCommit(t, commitOk, calls) ==
  [calls |-> Append(calls, SC("tx.Commit", t, 0, <<>>, Ans(commitOk))),
   err   |-> IF commitOk THEN "nil" ELSE ErrCommitTx,
   cause |-> IF commitOk THEN "none" ELSE "fail"]

\* a batch part whose deferred Close overwrites the error the closure returns
uow_CommitBatch_CloseWins(t, b, res, closeOk) ==
  LET sent == <<SC("tx.SendBatch", t, b, batches[b], "ok")>>
      d    == IF Len(batches[b]) > 0
              THEN Drain(0, Len(batches[b]), res, sent)
              ELSE [calls |-> sent, err |-> "nil", cause |-> "none"]
      closed == Append(d.calls, SC("results.Close", 0, 0, <<>>, Ans(closeOk)))
  IN IF closeOk THEN [d EXCEPT !.calls = closed]
     ELSE [calls |-> closed, err |-> ErrClosingBatch, cause |-> "fail"]

\* package uow: the batch part of Commit, a closure with `defer results.Close()`
uow_CommitBatch(t, b, res, closeOk) ==
  LET sent == <<SC("tx.SendBatch", t, b, batches[b], "ok")>>
      d    == IF Len(batches[b]) > 0
              THEN Drain(0, Len(batches[b]), res, sent)
              ELSE [calls |-> sent, err |-> "nil", cause |-> "none"]
  IN [d EXCEPT !.calls = Append(@, SC("results.Close", 0, 0, <<>>, Ans(closeOk)))]

\* a Commit that reports a missing transaction with Rollback's sentinel
uow_CommitRun_WrongSentinel(c, res, closeOk, commitOk) ==
  LET t == ExtractTx(ctxs, c)
      b == ExtractBatch(ctxs, c)
  IN IF ~t.ok THEN [calls |-> <<>>, err |-> ErrNoRollbackTx, cause |-> "none"]
     ELSE LET bp == IF b.ok THEN uow_CommitBatch(t.tx, b.batch, res, closeOk)
                    ELSE [calls |-> <<>>, err |-> "nil", cause |-> "none"]
          IN IF bp.err # "nil" THEN bp ELSE TxCommit(t.tx, commitOk, bp.calls)

\* package uow: Commit(ctx) as a function of the store's answers
uow_CommitRun(c, res, closeOk, commitOk) ==
  LET t == ExtractTx(ctxs, c)
      b == ExtractBatch(ctxs, c)
  IN IF ~t.ok THEN [calls |-> <<>>, err |-> ErrNoCommitTx, cause |-> "none"]
     ELSE LET bp == IF b.ok THEN uow_CommitBatch(t.tx, b.batch, res, closeOk)
                    ELSE [calls |-> <<>>, err |-> "nil", cause |-> "none"]
          IN IF bp.err # "nil" THEN bp ELSE TxCommit(t.tx, commitOk, bp.calls)

\* a unit_of_work Commit that commits although a result failed
unit_of_work_CommitRun_CommitsAnyway(c, res, closeOk, commitOk) ==
  LET t == ExtractTx(ctxs, c)
      b == ExtractBatch(ctxs, c)
  IN IF ~t.ok THEN [calls |-> <<>>, err |-> ErrNoCommitTx, cause |-> "none"]
     ELSE IF ~b.ok THEN TxCommit(t.tx, commitOk, <<>>)
     ELSE LET sent == <<SC("tx.SendBatch", t.tx, b.batch, batches[b.batch], "ok")>>
              d    == Drain(0, Len(batches[b.batch]), res, sent)
              closed == Append(d.calls, SC("results.Close", 0, 0, <<>>, Ans(closeOk)))
          IN IF ~closeOk
             THEN [calls |-> closed, err |-> ErrClosingBatch, cause |-> "fail"]
             ELSE TxCommit(t.tx, commitOk, closed)

\* package unit_of_work: Commit(ctx) as a function of the store's answers
unit_of_work_CommitRun(c, res, closeOk, commitOk) ==
  LET t == ExtractTx(ctxs, c)
      b == ExtractBatch(ctxs, c)
  IN IF ~t.ok THEN [calls |-> <<>>, err |-> ErrNoCommitTx, cause |-> "none"]
     ELSE IF ~b.ok THEN TxCommit(t.tx, commitOk, <<>>)
     ELSE LET sent == <<SC("tx.SendBatch", t.tx, b.batch, batches[b.batch], "ok")>>
              d    == Drain(0, Len(batches[b.batch]), res, sent)
          IN IF d.err # "nil" THEN d
             ELSE LET closed == Append(d.calls, SC("results.Close", 0, 0, <<>>, Ans(closeOk))) IN
                  IF ~closeOk
                  THEN [calls |-> closed, err |-> ErrClosingBatch, cause |-> "fail"]
                  ELSE TxCommit(t.tx, commitOk, closed)

\* batchExecutor.Batch.Len() of the batch attached to c, 0 when none is
BatchLen(c) ==
  LET b == ExtractBatch(ctxs, c) IN IF b.ok THEN Len(batches[b.batch]) ELSE 0

\* a Commit that empties the accumulator it has sent
CommitEffect_ClearsBatch(pkg, c, firstFail, kind, closeOk, commitOk, run) ==
  LET t == ExtractTx(ctxs, c)
      b == ExtractBatch(ctxs, c)
      n == Len(run.calls)
  IN
  /\ t.ok => StoreAnswers(t.tx, BatchLen(c), firstFail, kind, closeOk, commitOk)
  /\ t.ok => Unasked(t.tx, run.calls, closeOk, commitOk)
  /\ ~t.ok => (firstFail = 0 /\ kind = "fail" /\ closeOk /\ commitOk)
  /\ txs' = IF n > 0 /\ run.calls[n].call = "tx.Commit" /\ run.calls[n].ans = "ok"
            THEN [txs EXCEPT ![t.tx] = "committed"] ELSE txs
  /\ last' = [NoObs EXCEPT !.op = "Commit", !.pkg = pkg, !.ctx = c, !.err = run.err,
                !.cause = run.cause, !.calls = run.calls]
  /\ batches' = IF Asked(run.calls, "tx.SendBatch")
                THEN [batches EXCEPT ![b.batch] = <<>>] ELSE batches
  /\ UNCHANGED ctxs

\* the store after a Commit that made the calls of `run`
CommitEffect(pkg, c, firstFail, kind, closeOk, commitOk, run) ==
  LET t == ExtractTx(ctxs, c)
      n == Len(run.calls)
  IN
  /\ t.ok => StoreAnswers(t.tx, BatchLen(c), firstFail, kind, closeOk, commitOk)
  /\ t.ok => Unasked(t.tx, run.calls, closeOk, commitOk)
  /\ ~t.ok => (firstFail = 0 /\ kind = "fail" /\ closeOk /\ commitOk)
  /\ txs' = IF n > 0 /\ run.calls[n].call = "tx.Commit" /\ run.calls[n].ans = "ok"
            THEN [txs EXCEPT ![t.tx] = "committed"] ELSE txs
  /\ last' = [NoObs EXCEPT !.op = "Commit", !.pkg = pkg, !.ctx = c, !.err = run.err,
                !.cause = run.cause, !.calls = run.calls]
  /\ UNCHANGED <<ctxs, batches>>

uow_Commit(c, firstFail, kind, closeOk, commitOk) ==
  CommitEffect("uow", c, firstFail, kind, closeOk, commitOk,
               uow_CommitRun(c, Answers(BatchLen(c), firstFail, kind), closeOk, commitOk))

unit_of_work_Commit(c, firstFail, kind, closeOk, commitOk) ==
  CommitEffect("unit_of_work", c, firstFail, kind, closeOk, commitOk,
               unit_of_work_CommitRun(c, Answers(BatchLen(c), firstFail, kind), closeOk, commitOk))

\* a Rollback that sends the queued statements before it rolls back
RollbackRun_SendsBatch(c, rollbackOk) ==
  LET t == ExtractTx(ctxs, c)
      b == ExtractBatch(ctxs, c)
  IN
  IF ~t.ok THEN [calls |-> <<>>, err |-> ErrNoRollbackTx, cause |-> "none"]
  ELSE [calls |-> (IF b.ok THEN <<SC("tx.SendBatch", t.tx, b.batch, batches[b.batch], "ok")>>
                   ELSE <<>>)
                  \o <<SC("tx.Rollback", t.tx, 0, <<>>, Ans(rollbackOk))>>,
        err   |-> IF rollbackOk THEN "nil" ELSE ErrRollbackTx,
        cause |-> IF rollbackOk THEN "none" ELSE "fail"]

\* a Rollback that calls Rollback on the handle without testing that there is one
RollbackRun_NoCheck(c, rollbackOk) ==
  LET t == ExtractTx(ctxs, c) IN
  IF ~t.ok THEN [calls |-> <<SC("tx.Rollback", 0, 0, <<>>, "crash")>>,
                 err |-> "nil pointer dereference", cause |-> "crash"]
  ELSE [calls |-> <<SC("tx.Rollback", t.tx, 0, <<>>, Ans(rollbackOk))>>,
        err   |-> IF rollbackOk THEN "nil" ELSE ErrRollbackTx,
        cause |-> IF rollbackOk THEN "none" ELSE "fail"]

\* a Rollback that drops the error of the handle's Rollback
RollbackRun_SwallowsError(c, rollbackOk) ==
  LET t == ExtractTx(ctxs, c) IN
  IF ~t.ok THEN [calls |-> <<>>, err |-> ErrNoRollbackTx, cause |-> "none"]
  ELSE [calls |-> <<SC("tx.Rollback", t.tx, 0, <<>>, Ans(rollbackOk))>>,
        err   |-> "nil",
        cause |-> "none"]

\* Rollback(ctx) as a function of the store's answer
RollbackRun(c, rollbackOk) ==
  LET t == ExtractTx(ctxs, c) IN
  IF ~t.ok THEN [calls |-> <<>>, err |-> ErrNoRollbackTx, cause |-> "none"]
  ELSE [calls |-> <<SC("tx.Rollback", t.tx, 0, <<>>, Ans(rollbackOk))>>,
        err   |-> IF rollbackOk THEN "nil" ELSE ErrRollbackTx,
        cause |-> IF rollbackOk THEN "none" ELSE "fail"]

\* the store after a Rollback that made the calls of `run`
RollbackEffect(c, rollbackOk, run) ==
  LET t == ExtractTx(ctxs, c) IN
  /\ IF t.ok THEN TxOpen(t.tx) \/ ~rollbackOk ELSE rollbackOk
  /\ txs' = IF Len(run.calls) > 0 /\ run.calls[1].ans = "ok"
            THEN [txs EXCEPT ![t.tx] = "rolledback"] ELSE txs

Rollback(c, rollbackOk) ==
  LET run == RollbackRun(c, rollbackOk) IN
  /\ RollbackEffect(c, rollbackOk, run)
  /\ last' = [NoObs EXCEPT !.op = "Rollback", !.ctx = c, !.err = run.err,
                !.cause = run.cause, !.calls = run.calls]
  /\ UNCHANGED <<ctxs, batches>>

\* values a panic may carry; "none" is recover() == nil
PanicValues == {"panic A", "panic B"}

\* the caller's err *error: the nil pointer, or a pointer to a nil or non-nil error
ErrRefs == {"nilRef", "nil", "app error"}

\* a cleanup that panics with the rollback error when the rollback fails
GracefulRollback_PanicReplaced(c, r, errRef, rollbackOk) ==
  LET run == RollbackRun(c, rollbackOk)
      obs == [NoObs EXCEPT !.op = "GracefulRollback", !.ctx = c,
                !.panicIn = r, !.errRef = errRef, !.errRefAfter = errRef]
      rolled == [obs EXCEPT !.calls = <<SC("u.Rollback", 0, 0, <<>>, run.err)>> \o run.calls]
  IN
  /\ UNCHANGED <<ctxs, batches>>
  /\ IF r # "none"
     THEN /\ RollbackEffect(c, rollbackOk, run)
          /\ last' = [rolled EXCEPT !.panicOut = IF run.err = "nil" THEN r ELSE run.err]
     ELSE IF errRef # "nilRef" /\ errRef # "nil"
     THEN /\ RollbackEffect(c, rollbackOk, run)
          /\ last' = rolled
     ELSE /\ rollbackOk
          /\ last' = obs
          /\ UNCHANGED txs

\* a cleanup that stores the rollback error in the caller's error
GracefulRollback_ErrOverwritten(c, r, errRef, rollbackOk) ==
  LET run == RollbackRun(c, rollbackOk)
      obs == [NoObs EXCEPT !.op = "GracefulRollback", !.ctx = c,
                !.panicIn = r, !.errRef = errRef, !.errRefAfter = errRef]
      rolled == [obs EXCEPT !.calls = <<SC("u.Rollback", 0, 0, <<>>, run.err)>> \o run.calls]
  IN
  /\ UNCHANGED <<ctxs, batches>>
  /\ IF r # "none"
     THEN /\ RollbackEffect(c, rollbackOk, run)
          /\ last' = [rolled EXCEPT !.panicOut = r]
     ELSE IF errRef # "nilRef" /\ errRef # "nil"
     THEN /\ RollbackEffect(c, rollbackOk, run)
          /\ last' = [rolled EXCEPT !.errRefAfter = IF run.err = "nil" THEN errRef ELSE run.err]
     ELSE /\ rollbackOk
          /\ last' = obs
          /\ UNCHANGED txs

\* a cleanup that lets a panic end when there is no transaction to roll back
GracefulRollback_NoTxSwallows(c, r, errRef, rollbackOk) ==
  LET run == RollbackRun(c, rollbackOk)
      obs == [NoObs EXCEPT !.op = "GracefulRollback", !.ctx = c,
                !.panicIn = r, !.errRef = errRef, !.errRefAfter = errRef]
      rolled == [obs EXCEPT !.calls = <<SC("u.Rollback", 0, 0, <<>>, run.err)>> \o run.calls]
  IN
  /\ UNCHANGED <<ctxs, batches>>
  /\ IF r # "none"
     THEN /\ RollbackEffect(c, rollbackOk, run)
          /\ last' = [rolled EXCEPT !.panicOut = IF run.err = ErrNoRollbackTx THEN "none" ELSE r]
     ELSE IF errRef # "nilRef" /\ errRef # "nil"
     THEN /\ RollbackEffect(c, rollbackOk, run)
          /\ last' = rolled
     ELSE /\ rollbackOk
          /\ last' = obs
          /\ UNCHANGED txs

\* a cleanup that rolls back on a panic only
GracefulRollback_PanicOnly(c, r, errRef, rollbackOk) ==
  LET run == RollbackRun(c, rollbackOk)
      obs == [NoObs EXCEPT !.op = "GracefulRollback", !.ctx = c,
                !.panicIn = r, !.errRef = errRef, !.errRefAfter = errRef]
      rolled == [obs EXCEPT !.calls = <<SC("u.Rollback", 0, 0, <<>>, run.err)>> \o run.calls]
  IN
  /\ UNCHANGED <<ctxs, batches>>
  /\ IF r # "none"
     THEN /\ RollbackEffect(c, rollbackOk, run)
          /\ last' = [rolled EXCEPT !.panicOut = r]
     ELSE /\ rollbackOk
          /\ last' = obs
          /\ UNCHANGED txs

\* a cleanup that tests err != nil only, not *err != nil
GracefulRollback_NilErrorRollsBack(c, r, errRef, rollbackOk) ==
  LET run == RollbackRun(c, rollbackOk)
      obs == [NoObs EXCEPT !.op = "GracefulRollback", !.ctx = c,
                !.panicIn = r, !.errRef = errRef, !.errRefAfter = errRef]
      rolled == [obs EXCEPT !.calls = <<SC("u.Rollback", 0, 0, <<>>, run.err)>> \o run.calls]
  IN
  /\ UNCHANGED <<ctxs, batches>>
  /\ IF r # "none"
     THEN /\ RollbackEffect(c, rollbackOk, run)
          /\ last' = [rolled EXCEPT !.panicOut = r]
     ELSE IF errRef # "nilRef"
     THEN /\ RollbackEffect(c, rollbackOk, run)
          /\ last' = rolled
     ELSE /\ rollbackOk
          /\ last' = obs
          /\ UNCHANGED txs

\* GracefulRollback(ctx, err), deferred; r is what recover() returns.
\* The entry u.Rollback of `calls` is the call of u.Rollback, with what it returned.
GracefulRollback(c, r, errRef, rollbackOk) ==
  LET run == RollbackRun(c, rollbackOk)
      obs == [NoObs EXCEPT !.op = "GracefulRollback", !.ctx = c,
                !.panicIn = r, !.errRef = errRef, !.errRefAfter = errRef]
      rolled == [obs EXCEPT !.calls = <<SC("u.Rollback", 0, 0, <<>>, run.err)>> \o run.calls]
  IN
  /\ UNCHANGED <<ctxs, batches>>
  /\ IF r # "none"
     THEN /\ RollbackEffect(c, rollbackOk, run)
          /\ last' = [rolled EXCEPT !.panicOut = r]
     ELSE IF errRef # "nilRef" /\ errRef # "nil"
     THEN /\ RollbackEffect(c, rollbackOk, run)
          /\ last' = rolled
     ELSE /\ rollbackOk
          /\ last' = obs
          /\ UNCHANGED txs

\* ---- statements issued through the resolved executor

\* GetExecutor(ctx) called on its own
Resolve(c) ==
  /\ last' = [NoObs EXCEPT !.op = "GetExecutor", !.pkg = "executor", !.ctx = c,
                !.variant = GetExecutor(ctxs, c).variant,
                !.out = GetExecutor(ctxs, c).handle]
  /\ UNCHANGED <<ctxs, txs, batches>>

\* GetExecutor(ctx).Exec / Query / QueryRow (sql, args...): queued by the
\* Batch variant, handed to the store at once by the other two, whose answer
\* is returned as it is
Issue(method, c, stmt) ==
  LET e   == GetExecutor(ctxs, c)
      obs == [NoObs EXCEPT !.op = method, !.pkg = "executor", !.ctx = c,
                !.variant = e.variant, !.out = e.handle, !.stmt = <<stmt>>]
  IN
  /\ UNCHANGED <<ctxs, txs>>
  /\ IF e.variant = "Batch"
     THEN /\ Len(batches[e.handle]) < MaxLen
          /\ batches' = Queue(batches, e.handle, stmt)
          /\ last' = obs
     ELSE /\ UNCHANGED batches
          /\ last' = [obs EXCEPT
                        !.calls = <<SC(IF e.variant = "Transaction" THEN "tx." \o method
                                       ELSE "Pool." \o method, e.handle, 0, <<stmt>>, "store")>>,
                        !.err = "store"]

Exec(c, stmt) == Issue("Exec", c, stmt)

Query(c, stmt) == Issue("Query", c, stmt)

QueryRow(c, stmt) == Issue("QueryRow", c, stmt)

\* GetExecutor(ctx).CopyFrom(...): refused by the Batch variant with
\* errors.New("not supported"), an error value made at the call that matches
\* no sentinel; handed to the store by the other two variants
CopyFrom(c) ==
  LET e   == GetExecutor(ctxs, c)
      obs == [NoObs EXCEPT !.op = "CopyFrom", !.pkg = "executor", !.ctx = c,
                !.variant = e.variant, !.out = e.handle]
  IN
  /\ UNCHANGED <<ctxs, txs, batches>>
  /\ IF e.variant = "Batch"
     THEN last' = [obs EXCEPT !.err = "errors.New: not supported"]
     ELSE last' = [obs EXCEPT
                     !.calls = <<SC(IF e.variant = "Transaction" THEN "tx.CopyFrom"
                                    ELSE "Pool.CopyFrom", e.handle, 0, <<>>, "store")>>,
                     !.err = "store"]

\* GetExecutor(ctx).SendBatch(ctx, batch) called by the application: the Batch
\* variant returns nil, the nil pgx.BatchResults; the other two hand the batch
\* to the store and return its result stream
SendBatch(c) ==
  LET e   == GetExecutor(ctxs, c)
      obs == [NoObs EXCEPT !.op = "SendBatch", !.pkg = "executor", !.ctx = c,
                !.variant = e.variant, !.out = e.handle]
  IN
  /\ UNCHANGED <<ctxs, txs, batches>>
  /\ IF e.variant = "Batch"
     THEN last' = [obs EXCEPT !.results = "nil"]
     ELSE last' = [obs EXCEPT
                     !.calls = <<SC(IF e.variant = "Transaction" THEN "tx.SendBatch"
                                    ELSE "Pool.SendBatch", e.handle, 0, <<>>, "store")>>,
                     !.results = "stream"]

\* ---- logger.AsyncLogger

\* of the ten levels, one that logs (info, error) and the one whose handler,
\* Log.Panic, logs and then panics
Levels == {"info", "error", "panic"}

\* Config.OverflowStrategy
Strategies == {"Drop", "Block", "Retry"}

\* the calls of Shutdown that are made
ShutdownCalls == {1, 2}

\* NewAsyncLogger(logger): the channel is made and processLogs started with
\* wg at 1.  calls, accepted, handed, dropped and panics record what happened.
NewAsyncLogger(strategy) ==
  [strategy |-> strategy, logChan |-> <<>>, closed |-> FALSE, closes |-> 0,
   wg |-> 1, shutdown |-> "new", processLogs |-> "ranging",
   sender |-> [pc |-> "idle", msg |-> <<>>, tries |-> 0],
   shut |-> [i \in ShutdownCalls |-> [pc |-> "idle", ctxDone |-> FALSE]],
   calls |-> 0, accepted |-> <<>>, handed |-> <<>>, dropped |-> <<>>,
   panics |-> {}, exited |-> FALSE]

\* the frame of a step of the logger
LoggerStep == UNCHANGED <<ctxs, txs, batches, last, consumer>>

\* l.logChan <- msg when the send can proceed
Accept(a, msg) ==
  [a EXCEPT !.logChan = Append(@, msg), !.accepted = Append(@, msg),
            !.sender = [pc |-> "idle", msg |-> <<>>, tries |-> 0]]

\* l.logChan <- msg on a closed channel: the sending goroutine panics
SendOnClosed(a) ==
  [a EXCEPT !.panics = @ \cup {"send on closed channel"},
            !.sender = [pc |-> "idle", msg |-> <<>>, tries |-> 0]]

\* l.Logger.Errorf("Log buffer overflow, message dropped: %s", ...)
Drop(a, msg) ==
  [a EXCEPT !.dropped = Append(@, msg),
            !.sender = [pc |-> "idle", msg |-> <<>>, tries |-> 0]]

\* logAsync(msg) up to its first select: a send case on a closed channel is
\* chosen and panics; the default case is taken when the buffer is full
logAsync(level) ==
  LET msg == [level |-> level, id |-> async.calls + 1]
      a   == [async EXCEPT !.calls = @ + 1]
  IN
  /\ ~async.exited
  /\ async.sender.pc = "idle"
  /\ async.calls < MaxMsgs
  /\ async' = IF a.closed THEN SendOnClosed(a)
              ELSE IF Len(a.logChan) < BufferSize THEN Accept(a, msg)
              ELSE IF a.strategy = "Block"
                   THEN [a EXCEPT !.sender = [pc |-> "blocked", msg |-> msg, tries |-> 0]]
              ELSE IF a.strategy = "Retry"
                   THEN [a EXCEPT !.sender = [pc |-> "retry", msg |-> msg, tries |-> 0]]
              ELSE Drop(a, msg)
  /\ LoggerStep

Info == logAsync("info")

Error == logAsync("error")

Panic == logAsync("panic")

\* case Block: l.logChan <- msg, which waits for room in the buffer
BlockedSend ==
  /\ ~async.exited
  /\ async.sender.pc = "blocked"
  /\ async.closed \/ Len(async.logChan) < BufferSize
  /\ async' = IF async.closed THEN SendOnClosed(async)
              ELSE Accept(async, async.sender.msg)
  /\ LoggerStep

\* case Retry: the send case of the select in the loop
RetrySend ==
  /\ ~async.exited
  /\ async.sender.pc = "retry"
  /\ async.closed \/ Len(async.logChan) < BufferSize
  /\ async' = IF async.closed THEN SendOnClosed(async)
              ELSE Accept(async, async.sender.msg)
  /\ LoggerStep

\* case Retry: time.After fires; after the third time the message is dropped
RetryTimeout ==
  /\ ~async.exited
  /\ async.sender.pc = "retry"
  /\ async' = IF async.sender.tries + 1 < 3
              THEN [async EXCEPT !.sender.tries = @ + 1]
              ELSE Drop(async, async.sender.msg)
  /\ LoggerStep

\* processLogs: one turn of `for msg := range l.logChan`, the message handed
\* to the method of l.Logger for its level; Log.Panic logs and panics, and the
\* deferred wg.Done runs as the goroutine unwinds; the loop ends when the
\* channel is closed and empty
processLogs ==
  /\ ~async.exited
  /\ async.processLogs = "ranging"
  /\ IF Len(async.logChan) > 0
     THEN LET msg == Head(async.logChan)
              a   == [async EXCEPT !.logChan = Tail(@), !.handed = Append(@, msg)]
          IN async' = IF msg.level = "panic"
                      THEN [a EXCEPT !.processLogs = "panicked", !.wg = 0,
                                     !.panics = @ \cup {"Logger.Panic"}]
                      ELSE a
     ELSE /\ async.closed
          /\ async' = [async EXCEPT !.processLogs = "returned", !.wg = 0]
  /\ LoggerStep

\* the panic of processLogs, which nothing recovers, ends the process
Crash ==
  /\ ~async.exited
  /\ "Logger.Panic" \in async.panics
  /\ async' = [async EXCEPT !.exited = TRUE]
  /\ LoggerStep

\* Shutdown(ctx), call i, up to its select: the first call to enter
\* l.shutdown.Do closes the channel and waits; a call that finds Do running
\* waits in Do; a call that finds it done returns.  ctxDone: ctx is cancelled
\* before the call returns.
Shutdown(i, ctxDone) ==
  /\ ~async.exited
  /\ async.shut[i].pc = "idle"
  /\ async' = IF async.shutdown = "new"
              THEN [async EXCEPT !.shutdown = "running", !.closed = TRUE, !.closes = @ + 1,
                                 !.shut[i] = [pc |-> "waiting", ctxDone |-> ctxDone]]
              ELSE IF async.shutdown = "running"
              THEN [async EXCEPT !.shut[i] = [pc |-> "inDo", ctxDone |-> ctxDone]]
              ELSE [async EXCEPT !.shut[i] = [pc |-> "returned", ctxDone |-> ctxDone]]
  /\ LoggerStep

\* Shutdown returns: from the select, on done (wg.Wait has returned) or on
\* ctx.Done(); from Do, when the call that runs the function has finished
ShutdownReturns(i) ==
  /\ ~async.exited
  /\ \/ /\ async.shut[i].pc = "waiting"
        /\ async.wg = 0 \/ async.shut[i].ctxDone
        /\ async' = [async EXCEPT !.shutdown = "done", !.shut[i].pc = "returned"]
     \/ /\ async.shut[i].pc = "inDo"
        /\ async.shutdown = "done"
        /\ async' = [async EXCEPT !.shut[i].pc = "returned"]
  /\ LoggerStep

\* ---- kafka/consumer.Consumer

\* a call of Consume(ctx, wg), about to enter its loop; wg: a WaitGroup is given
NewConsume(wg) ==
  [wg |-> wg, pc |-> "select", cancelled |-> FALSE, reads |-> 0, m |-> 0,
   dones |-> 0, events |-> <<>>]

\* the frame of a step of the consumer
ConsumerStep == UNCHANGED <<ctxs, txs, batches, last, async>>

\* the caller cancels ctx
Cancel ==
  /\ ~consumer.cancelled
  /\ consumer' = [consumer EXCEPT !.cancelled = TRUE]
  /\ ConsumerStep

\* select { case <-ctx.Done(): return; default: ... }
Select ==
  /\ consumer.pc = "select"
  /\ consumer' = [consumer EXCEPT !.pc = IF consumer.cancelled THEN "deferred"
                                         ELSE "ReadMessage"]
  /\ ConsumerStep

\* a Consume that leaves its loop when a read fails
ReadMessage_Returns(ok) ==
  /\ consumer.pc = "ReadMessage"
  /\ IF ok
     THEN /\ consumer.reads < MaxReads
          /\ consumer' = [consumer EXCEPT
               !.reads = @ + 1, !.m = consumer.reads + 1, !.pc = "Handle",
               !.events = Append(@, [ev |-> "read", m |-> consumer.reads + 1, ok |-> TRUE])]
     ELSE /\ consumer.cancelled \/ consumer.reads < MaxReads
          /\ consumer' = [consumer EXCEPT
               !.reads = IF consumer.cancelled THEN @ ELSE @ + 1, !.m = 0, !.pc = "deferred",
               !.events = Append(@, [ev |-> "read", m |-> 0, ok |-> FALSE])]
  /\ ConsumerStep

\* m, err := c.Reader.ReadMessage(ctx): a message, or an error that is logged
\* before `continue`; once ctx is cancelled the call returns, with ctx's error
\* or with a message that was ready
ReadMessage(ok) ==
  /\ consumer.pc = "ReadMessage"
  /\ IF ok
     THEN /\ consumer.reads < MaxReads
          /\ consumer' = [consumer EXCEPT
               !.reads = @ + 1, !.m = consumer.reads + 1, !.pc = "Handle",
               !.events = Append(@, [ev |-> "read", m |-> consumer.reads + 1, ok |-> TRUE])]
     ELSE /\ consumer.cancelled \/ consumer.reads < MaxReads
          /\ consumer' = [consumer EXCEPT
               !.reads = IF consumer.cancelled THEN @ ELSE @ + 1, !.m = 0, !.pc = "select",
               !.events = Append(@, [ev |-> "read", m |-> 0, ok |-> FALSE])]
  /\ ConsumerStep

\* c.Handler.Handle(ctx, m), whose error is logged
Handle(ok) ==
  /\ consumer.pc = "Handle"
  /\ consumer' = [consumer EXCEPT
       !.pc = "select",
       !.events = Append(@, [ev |-> "handle", m |-> consumer.m, ok |-> ok])]
  /\ ConsumerStep

\* return: the deferred c.log.Info("Consumer shutting down..."), then the
\* deferred wg.Done() when wg is not nil
Return ==
  /\ consumer.pc = "deferred"
  /\ consumer' = [consumer EXCEPT
       !.pc = "returned",
       !.dones = IF consumer.wg THEN @ + 1 ELSE @]
  /\ ConsumerStep

\* ---- construction

\* no context derived, no transaction opened, no accumulator made
InitUnitOfWork ==
  /\ ctxs = <<>>
  /\ txs = <<>>
  /\ batches = <<>>
  /\ last = NoObs

\* a unit-of-work layer, an AsyncLogger of a zero-valued OverflowStrategy
\* (Drop) and a Consume that is given a WaitGroup
Init ==
  /\ InitUnitOfWork
  /\ async = NewAsyncLogger("Drop")
  /\ consumer = NewConsume(TRUE)

\* a call of the unit-of-work layer leaves the logger and the consumer alone
Elsewhere == UNCHANGED <<async, consumer>>

\* ---- the operations a caller may perform, grouped

Begins ==
  \/ \E c \in Contexts, beginOk \in BOOLEAN : BeginWithTx(c, beginOk) /\ Elsewhere
  \/ \E c \in Contexts : BeginWithBatch(c) /\ Elsewhere
  \/ \E c \in Contexts, beginOk \in BOOLEAN : BeginWithTxAndBatch(c, beginOk) /\ Elsewhere

Issues ==
  \/ \E c \in Contexts, stmt \in Statements : Exec(c, stmt) /\ Elsewhere
  \/ \E c \in Contexts, stmt \in Statements : Query(c, stmt) /\ Elsewhere
  \/ \E c \in Contexts, stmt \in Statements : QueryRow(c, stmt) /\ Elsewhere

CommitsUow ==
  \E c \in Contexts, kind \in {"fail", "cancel"}, closeOk, commitOk \in BOOLEAN :
    \E firstFail \in 0..BatchLen(c) :
      uow_Commit(c, firstFail, kind, closeOk, commitOk) /\ Elsewhere

CommitsUnitOfWork ==
  \E c \in Contexts, kind \in {"fail", "cancel"}, closeOk, commitOk \in BOOLEAN :
    \E firstFail \in 0..BatchLen(c) :
      unit_of_work_Commit(c, firstFail, kind, closeOk, commitOk) /\ Elsewhere

Rollbacks == \E c \in Contexts, rollbackOk \in BOOLEAN : Rollback(c, rollbackOk) /\ Elsewhere

GracefulRollbacks ==
  \E c \in Contexts, r \in PanicValues \cup {"none"}, errRef \in ErrRefs,
     rollbackOk \in BOOLEAN : GracefulRollback(c, r, errRef, rollbackOk) /\ Elsewhere

Resolves == \E c \in Contexts : Resolve(c) /\ Elsewhere

CopyFroms == \E c \in Contexts : CopyFrom(c) /\ Elsewhere

SendBatches == \E c \in Contexts : SendBatch(c) /\ Elsewhere

\* every operation of the layer
Next ==
  \/ Begins
  \/ Issues
  \/ CommitsUow
  \/ CommitsUnitOfWork
  \/ Rollbacks
  \/ GracefulRollbacks
  \/ Resolves
  \/ CopyFroms
  \/ SendBatches

Spec == Init /\ [][Next]_vars

\* units of work that are begun, filled and committed or rolled back
NextCommit ==
  \/ Begins
  \/ Issues
  \/ CommitsUow
  \/ CommitsUnitOfWork
  \/ Rollbacks

SpecCommit == Init /\ [][NextCommit]_vars

\* statements issued through the resolved executor, and sent by Commit
NextExecutor ==
  \/ Begins
  \/ Resolves
  \/ Issues
  \/ CopyFroms
  \/ SendBatches
  \/ CommitsUow

SpecExecutor == Init /\ [][NextExecutor]_vars

\* units of work that are begun and committed, rolled back or cleaned up
NextRollback ==
  \/ Begins
  \/ CommitsUow
  \/ Rollbacks
  \/ GracefulRollbacks

SpecRollback == Init /\ [][NextRollback]_vars

\* scopes that are opened, nested and resolved
NextScope ==
  \/ Begins
  \/ Resolves

SpecScope == Init /\ [][NextScope]_vars

\* ---- the asynchronous logger: logging calls, the goroutine of processLogs
\* and calls of Shutdown, interleaved

\* an AsyncLogger of any overflow strategy
InitAsync ==
  /\ InitUnitOfWork
  /\ \E strategy \in Strategies : async = NewAsyncLogger(strategy)
  /\ consumer = NewConsume(TRUE)

NextAsync ==
  \/ Info
  \/ Error
  \/ Panic
  \/ BlockedSend
  \/ RetrySend
  \/ RetryTimeout
  \/ processLogs
  \/ Crash
  \/ \E i \in ShutdownCalls, ctxDone \in BOOLEAN : Shutdown(i, ctxDone)
  \/ \E i \in ShutdownCalls : ShutdownReturns(i)

SpecAsync == InitAsync /\ [][NextAsync]_vars

\* ---- the consumer: Consume in its goroutine, and the caller that cancels

\* a Consume with or without a WaitGroup
InitConsume ==
  /\ InitUnitOfWork
  /\ async = NewAsyncLogger("Drop")
  /\ \E wg \in BOOLEAN : consumer = NewConsume(wg)

NextConsume ==
  \/ Cancel
  \/ Select
  \/ \E ok \in BOOLEAN : ReadMessage(ok)
  \/ \E ok \in BOOLEAN : Handle(ok)
  \/ Return

\* the goroutine of Consume is scheduled; Handle returns; ReadMessage returns
\* once ctx is cancelled
SpecConsume ==
  /\ InitConsume
  /\ [][NextConsume]_vars
  /\ WF_vars(Select)
  /\ WF_vars(consumer.cancelled /\ \E ok \in BOOLEAN : ReadMessage(ok))
  /\ WF_vars(\E ok \in BOOLEAN : Handle(ok))
  /\ WF_vars(Return)

\* ---- an enclosing operation: Begin*, `defer GracefulRollback(ctx, &err)` on
\* the context Begin* returned, statements, and one of three exits

\* an enclosing operation has begun and has neither committed nor ended
InOperation ==
  /\ last.op \in {"BeginWithTx", "BeginWithTxAndBatch", "Exec", "Query", "QueryRow"}
  /\ last.err # ErrTxStartFailed

\* the context the enclosing operation works on
Current == IF last.op \in {"BeginWithTx", "BeginWithTxAndBatch"} THEN last.out ELSE last.ctx

\* the operation begins a unit of work, when no other operation is under way
OperationBegins ==
  /\ last.op \in {"Init", "GracefulRollback"}
  /\ Elsewhere
  /\ \E c \in Contexts :
       \/ BeginWithTx(c, TRUE)
       \/ BeginWithTxAndBatch(c, TRUE)

\* it issues a statement through the executor of its context
OperationIssues ==
  /\ InOperation
  /\ Elsewhere
  /\ \E method \in {"Exec", "Query", "QueryRow"}, stmt \in Statements :
       Issue(method, Current, stmt)

\* it executes `return u.Commit(ctx)`, which sets err
OperationCommits ==
  /\ InOperation
  /\ Elsewhere
  /\ \E kind \in {"fail", "cancel"}, closeOk, commitOk \in BOOLEAN :
       \E firstFail \in 0..BatchLen(Current) :
         uow_Commit(Current, firstFail, kind, closeOk, commitOk)

\* it panics before Commit: the deferred call runs with recover() # nil
OperationPanics ==
  /\ InOperation
  /\ Elsewhere
  /\ \E r \in PanicValues, rollbackOk \in BOOLEAN :
       GracefulRollback(Current, r, "nil", rollbackOk)

\* it returns an error of its own before Commit: the deferred call runs
OperationFails ==
  /\ InOperation
  /\ Elsewhere
  /\ \E rollbackOk \in BOOLEAN : GracefulRollback(Current, "none", "app error", rollbackOk)

\* it returns what Commit returned: the deferred call runs with err set to it
OperationReturns ==
  /\ last.op = "Commit"
  /\ Elsewhere
  /\ \E rollbackOk \in BOOLEAN : GracefulRollback(last.ctx, "none", last.err, rollbackOk)

NextOperation ==
  \/ OperationBegins
  \/ OperationIssues
  \/ OperationCommits
  \/ OperationPanics
  \/ OperationFails
  \/ OperationReturns

SpecOperation == Init /\ [][NextOperation]_vars

\* ---- what the claims speak of

\* the contexts on the lineage of c, c included
RECURSIVE Lineage(_)
Lineage(c) == IF c = 0 THEN {} ELSE {c} \cup Lineage(ctxs[c].parent)

\* a binding of key is attached to c
Attached(c, key) == \E i \in Lineage(c) : ctxs[i].key = key

\* the handle of the innermost binding of key on the lineage of c
Innermost(c, key) ==
  LET bound == {i \in Lineage(c) : ctxs[i].key = key}
  IN ctxs[CHOOSE i \in bound : \A j \in bound : j <= i].val

\* the calls of one kind among calls, in order
Only(calls, call) == SelectSeq(calls, LAMBDA x : x.call = call)

\* the position of the first call of one kind, 0 when there is none
First(calls, call) ==
  IF Asked(calls, call)
  THEN CHOOSE i \in 1..Len(calls) :
         calls[i].call = call /\ \A j \in 1..(i - 1) : calls[j].call # call
  ELSE 0

Reads == Only(last.calls, "results.Exec")

\* the last call was Commit on a context with a transaction and an accumulator
CommitWithBatch ==
  /\ last.op = "Commit"
  /\ Attached(last.ctx, txKey)
  /\ Attached(last.ctx, batchKey)

\* a per-statement result failed, or closing the stream did
BatchError ==
  \E i \in 1..Len(last.calls) :
    /\ last.calls[i].call \in {"results.Exec", "results.Close"}
    /\ last.calls[i].ans # "ok"

\* C1: in Commit on a context with a transaction and an accumulator, a batch
\* error (a failed result or a failed close of the stream) is what Commit
\* returns, and the handle's Commit and Rollback are not invoked.
C1_NoPartialCommit ==
  (CommitWithBatch /\ BatchError) =>
    /\ last.err \in {ErrExecBatch, ErrClosingBatch}
    /\ ~Asked(last.calls, "tx.Commit")
    /\ ~Asked(last.calls, "tx.Rollback")

\* C2: Commit reads the results in submission order, N of them when all
\* succeed and k when the k-th is the first to fail, nothing after a failure,
\* and invokes the handle's Commit only after N successful reads.
C2_DrainInOrder ==
  CommitWithBatch =>
    LET n == BatchLen(last.ctx) IN
    /\ Len(Reads) <= n
    /\ \A j \in 1..Len(Reads) : Reads[j].idx = j
    /\ \A j \in 1..(Len(Reads) - 1) : Reads[j].ans = "ok"
    /\ (\A j \in 1..Len(Reads) : Reads[j].ans = "ok") => Len(Reads) = n
    /\ Asked(last.calls, "tx.Commit") =>
         /\ Len(Reads) = n
         /\ \A j \in 1..n : Reads[j].ans = "ok"
         /\ \A i \in 1..Len(last.calls) :
              last.calls[i].call = "results.Exec" => i < First(last.calls, "tx.Commit")

\* C2 witness: of two queued statements the second result is the first to fail
C2_Witness ==
  /\ CommitWithBatch
  /\ BatchLen(last.ctx) = 2
  /\ Len(Reads) = 2
  /\ Reads[1].ans = "ok"
  /\ Reads[2].ans # "ok"
  /\ last.err = ErrExecBatch

\* C3: once Commit has a result stream, it closes it exactly once, before it
\* returns and before the handle's Commit, on every path.
C3_ClosedExactlyOnce ==
  (last.op = "Commit" /\ Asked(last.calls, "tx.SendBatch")) =>
    /\ Len(Only(last.calls, "results.Close")) = 1
    /\ First(last.calls, "tx.SendBatch") < First(last.calls, "results.Close")
    /\ Asked(last.calls, "tx.Commit") =>
         First(last.calls, "results.Close") < First(last.calls, "tx.Commit")

\* C4: when every result succeeded and closing the stream fails, Commit
\* returns ErrClosingBatch and does not commit the transaction.
C4_CloseErrorSurfaced ==
  ( /\ last.op = "Commit"
    /\ \A j \in 1..Len(Reads) : Reads[j].ans = "ok"
    /\ \E i \in 1..Len(last.calls) :
         last.calls[i].call = "results.Close" /\ last.calls[i].ans # "ok" ) =>
    /\ last.err = ErrClosingBatch
    /\ ~Asked(last.calls, "tx.Commit")

\* a result failed and closing the stream failed as well
ExecAndCloseFailed ==
  /\ last.op = "Commit"
  /\ \E j \in 1..Len(Reads) : Reads[j].ans # "ok"
  /\ \E i \in 1..Len(last.calls) :
       last.calls[i].call = "results.Close" /\ last.calls[i].ans # "ok"

\* C5: when a result fails and closing the stream fails too, Commit returns
\* the ErrExecBatch error of the result, not the close error.
C5_ExecErrorWins ==
  ExecAndCloseFailed =>
    /\ last.err = ErrExecBatch
    /\ last.cause = Reads[Len(Reads)].ans

\* C5 witness: package uow, where the deferred Close runs after the failed result
C5_Witness ==
  /\ ExecAndCloseFailed
  /\ last.pkg = "uow"
  /\ TxOpen(Innermost(last.ctx, txKey))

\* C6: Commit on the context BeginWithTxAndBatch returned, with nothing
\* queued, makes no batch-send call and exactly one transaction commit call.
C6_EmptyBatchSkipsSend ==
  ( /\ last.op = "Commit"
    /\ last.ctx # 0
    /\ ctxs[last.ctx].key = batchKey
    /\ ctxs[last.ctx].parent # 0
    /\ ~ctxs[ctxs[last.ctx].parent].returned
    /\ Len(batches[ctxs[last.ctx].val]) = 0 ) =>
    /\ Len(Only(last.calls, "tx.SendBatch")) = 0
    /\ Len(Only(last.calls, "tx.Commit")) = 1

\* the variant the precedence rule gives a context
Precedence(c) ==
  IF Attached(c, batchKey) THEN "Batch"
  ELSE IF Attached(c, txKey) THEN "Transaction"
  ELSE "Pool"

\* C7: GetExecutor returns the Batch variant when an accumulator is attached
\* (with or without a transaction), else the Transaction variant when a
\* handle is attached, else the Pool variant; it makes no store call and
\* changes neither the contexts, the accumulators nor the store.
C7_ResolutionPrecedence ==
  [][ last'.op = "GetExecutor" =>
        /\ last'.variant = Precedence(last'.ctx)
        /\ last'.variant = "Batch" => last'.out = Innermost(last'.ctx, batchKey)
        /\ last'.variant = "Transaction" => last'.out = Innermost(last'.ctx, txKey)
        /\ last'.calls = <<>>
        /\ last'.err = "nil"
        /\ UNCHANGED <<ctxs, txs, batches>> ]_vars

\* C7 witness: resolved to the Batch variant with a transaction attached too
C7_Witness ==
  /\ last.op = "GetExecutor"
  /\ Attached(last.ctx, txKey)
  /\ Attached(last.ctx, batchKey)
  /\ last.variant = "Batch"

\* C8: while an accumulator is attached, Exec, Query and QueryRow append their
\* statement to it, in call order, and make no store call; on such a context
\* statements reach the store only in the batch Commit sends, which is the
\* accumulator as queued.
C8_BatchCaptures ==
  [][ /\ (last'.op \in {"Exec", "Query", "QueryRow"} /\ Attached(last'.ctx, batchKey)) =>
           /\ batches' = [batches EXCEPT ![Innermost(last'.ctx, batchKey)] =
                            Append(@, last'.stmt[1])]
           /\ last'.calls = <<>>
           /\ UNCHANGED <<ctxs, txs>>
      /\ Attached(last'.ctx, batchKey) =>
           \A i \in 1..Len(last'.calls) :
             last'.calls[i].stmts # <<>> =>
               /\ last'.op = "Commit"
               /\ last'.calls[i].call = "tx.SendBatch"
               /\ last'.calls[i].stmts = batches[Innermost(last'.ctx, batchKey)] ]_vars

\* C8 witness: Exec "INSERT INTO t VALUES (1)" then Query "SELECT 1" on a
\* context with a transaction and an accumulator
C8_Witness ==
  /\ last.op = "Query"
  /\ Attached(last.ctx, txKey)
  /\ Attached(last.ctx, batchKey)
  /\ batches[Innermost(last.ctx, batchKey)] =
       << [sql |-> "INSERT INTO t VALUES (1)", args |-> <<>>],
          [sql |-> "SELECT 1", args |-> <<>>] >>

\* C9: GracefulRollback run while a panic propagates calls Rollback, which
\* rolls back the context's transaction, and re-raises the same panic value,
\* whether the rollback succeeds or fails.
C9_PanicReRaised ==
  (last.op = "GracefulRollback" /\ last.panicIn # "none") =>
    /\ last.panicOut = last.panicIn
    /\ Len(Only(last.calls, "u.Rollback")) = 1
    /\ last.calls[1].call = "u.Rollback"
    /\ Attached(last.ctx, txKey) =>
         /\ Len(last.calls) = 2
         /\ last.calls[2].call = "tx.Rollback"
         /\ last.calls[2].tx = Innermost(last.ctx, txKey)

\* C9 witness: the rollback failed while "panic B" was propagating
C9_Witness ==
  /\ last.op = "GracefulRollback"
  /\ last.panicIn = "panic B"
  /\ last.panicOut = "panic B"
  /\ Len(last.calls) = 2
  /\ last.calls[2].call = "tx.Rollback"
  /\ last.calls[2].ans = "fail"

\* C10: GracefulRollback with no panic and an error reference that holds an
\* error calls Rollback exactly once, drops what Rollback returns and leaves
\* the referenced error as it was.
C10_ErrorPathRollback ==
  (last.op = "GracefulRollback" /\ last.panicIn = "none" /\ last.errRef = "app error") =>
    /\ Len(Only(last.calls, "u.Rollback")) = 1
    /\ Len(Only(last.calls, "tx.Rollback")) <= 1
    /\ last.errRefAfter = "app error"
    /\ last.panicOut = "none"
    /\ last.err = "nil"

\* C10 witness: Rollback returned ErrRollbackTx, which was dropped
C10_Witness ==
  /\ last.op = "GracefulRollback"
  /\ last.panicIn = "none"
  /\ last.errRef = "app error"
  /\ last.calls[1].call = "u.Rollback"
  /\ last.calls[1].ans = ErrRollbackTx
  /\ last.errRefAfter = "app error"

\* C11: GracefulRollback with no panic in flight and a nil error reference,
\* or a reference that holds no error, does nothing: no rollback, no commit,
\* no other store call, no change of the contexts or the accumulators.
C11_SuccessPathNoAction ==
  [][ ( /\ last'.op = "GracefulRollback"
        /\ last'.panicIn = "none"
        /\ last'.errRef \in {"nilRef", "nil"} ) =>
        /\ last'.calls = <<>>
        /\ last'.panicOut = "none"
        /\ last'.errRefAfter = last'.errRef
        /\ UNCHANGED <<ctxs, txs, batches>> ]_vars

\* C11 witness: the reference holds no error and the transaction is open
C11_Witness ==
  /\ last.op = "GracefulRollback"
  /\ last.panicIn = "none"
  /\ last.errRef = "nil"
  /\ Attached(last.ctx, txKey)
  /\ TxOpen(Innermost(last.ctx, txKey))
  /\ last.calls = <<>>

\* C12: Commit on a context with no transaction handle, with or without an
\* accumulator, returns ErrNoCommitTx and makes no store call.
C12_CommitWithoutTx ==
  (last.op = "Commit" /\ ~Attached(last.ctx, txKey)) =>
    /\ last.err = ErrNoCommitTx
    /\ last.calls = <<>>

\* C12 witness: an accumulator is attached (BeginWithBatch), a transaction is not
C12_Witness ==
  /\ last.op = "Commit"
  /\ ~Attached(last.ctx, txKey)
  /\ Attached(last.ctx, batchKey)
  /\ Len(batches[Innermost(last.ctx, batchKey)]) > 0
  /\ last.err = ErrNoCommitTx

\* C13: Rollback on a context with no transaction handle returns
\* ErrNoRollbackTx and makes no store call; it does not crash.
C13_RollbackWithoutTx ==
  (last.op = "Rollback" /\ ~Attached(last.ctx, txKey)) =>
    /\ last.err = ErrNoRollbackTx
    /\ last.cause # "crash"
    /\ last.calls = <<>>

\* C13 witness: Rollback on the background context while a transaction is
\* open elsewhere
C13_Witness ==
  /\ last.op = "Rollback"
  /\ ~Attached(last.ctx, txKey)
  /\ Len(txs) > 0
  /\ last.err = ErrNoRollbackTx

\* C14: once the transaction of a context is committed or rolled back, a
\* further Commit or Rollback on that context returns an ordinary error, not
\* success and not a crash, and leaves the transaction's outcome as it is.
C14_TerminalOutcome ==
  [][ ( /\ last'.op \in {"Commit", "Rollback"}
        /\ Attached(last'.ctx, txKey)
        /\ txs[Innermost(last'.ctx, txKey)] \in {"committed", "rolledback"} ) =>
        /\ last'.err \in {ErrExecBatch, ErrClosingBatch, ErrCommitTx, ErrRollbackTx}
        /\ last'.cause # "crash"
        /\ txs' = txs ]_vars

\* C14 witness: a second Commit on a committed transaction fails
C14_Witness ==
  /\ last.op = "Commit"
  /\ Attached(last.ctx, txKey)
  /\ txs[Innermost(last.ctx, txKey)] = "committed"
  /\ last.err = ErrCommitTx

\* the sentinels callers can compare an error of the layer against
Taxonomy ==
  {ErrTxStartFailed, ErrNoCommitTx, ErrNoRollbackTx, ErrExecBatch, ErrClosingBatch,
   ErrCommitTx, ErrRollbackTx, "ErrUnsupportedBulkCopyInBatch"}

\* C15: CopyFrom on the Batch variant fails with the unsupported-bulk-copy
\* error of the taxonomy, makes no store call and leaves the accumulators as
\* they are.
C15_BulkCopyRefused ==
  [][ (last'.op = "CopyFrom" /\ last'.variant = "Batch") =>
        /\ last'.err = "ErrUnsupportedBulkCopyInBatch"
        /\ last'.err \in Taxonomy
        /\ last'.calls = <<>>
        /\ batches' = batches ]_vars

\* C16: BeginWithTx returns, when the store fails to open a transaction, the
\* context it was given and ErrTxStartFailed, attaching nothing; when the
\* store opens one, a context from which ExtractTx yields exactly that handle.
C16_BeginWithTx ==
  [][ last'.op = "BeginWithTx" =>
        IF last'.calls[1].ans # "ok"
        THEN /\ last'.err = ErrTxStartFailed
             /\ last'.out = last'.ctx
             /\ UNCHANGED <<ctxs, txs, batches>>
        ELSE /\ last'.err = "nil"
             /\ Len(txs') = Len(txs) + 1
             /\ last'.calls[1].tx = Len(txs')
             /\ (Attached(last.out, txKey))'
             /\ (Innermost(last.out, txKey))' = last'.calls[1].tx
             /\ ExtractTx(ctxs', last'.out) = [tx |-> last'.calls[1].tx, ok |-> TRUE] ]_vars

\* C16 witness: a transaction opened on a context that carries another one
C16_Witness ==
  /\ last.op = "BeginWithTx"
  /\ last.err = "nil"
  /\ Attached(last.ctx, txKey)
  /\ Innermost(last.out, txKey) # Innermost(last.ctx, txKey)

C18_AttachDerives ==
  [][ /\ \A c \in 0..Len(ctxs) :
           /\ ExtractTx(ctxs', c) = ExtractTx(ctxs, c)
           /\ ExtractBatch(ctxs', c) = ExtractBatch(ctxs, c)
           /\ GetExecutor(ctxs', c) = GetExecutor(ctxs, c)
      /\ Len(ctxs') >= Len(ctxs)
      /\ \A i \in (Len(ctxs) + 1)..Len(ctxs') :
           /\ ctxs'[i].parent < i
           /\ Value(ctxs', i, ctxs'[i].key) = ctxs'[i].val ]_vars

\* C18 witness: a handle attached below a context that carries another one
C18_Witness ==
  /\ last.op = "BeginWithTx"
  /\ last.err = "nil"
  /\ last.ctx # 0
  /\ ctxs[last.ctx].key = txKey
  /\ ExtractTx(ctxs, last.ctx).tx # ExtractTx(ctxs, last.out).tx

C20_CommitOutcome ==
  last.op = "Commit" =>
    /\ last.err = "nil" <=>
         \E i \in 1..Len(last.calls) :
           last.calls[i].call = "tx.Commit" /\ last.calls[i].ans = "ok"
    /\ (\E i \in 1..Len(last.calls) :
          last.calls[i].call = "tx.Commit" /\ last.calls[i].ans # "ok")
         => last.err = ErrCommitTx
    /\ (Attached(last.ctx, txKey) /\ ~Attached(last.ctx, batchKey)) =>
         /\ Len(last.calls) = 1
         /\ last.calls[1].call = "tx.Commit"
         /\ last.calls[1].tx = Innermost(last.ctx, txKey)

\* C20 witness: without an accumulator, the handle's Commit fails
C20_Witness ==
  /\ last.op = "Commit"
  /\ Attached(last.ctx, txKey)
  /\ ~Attached(last.ctx, batchKey)
  /\ last.calls[1].ans # "ok"
  /\ last.err = ErrCommitTx

\* the calls of the store a unit of work makes
StoreCalls == {"Begin", "tx.SendBatch", "results.Close", "tx.Commit", "tx.Rollback"}

\* C21: one call of BeginWithTx, BeginWithTxAndBatch, Commit or Rollback makes
\* each call of the store (Begin, SendBatch, Close, Commit, Rollback) at most
\* once, and a call of the store that failed is the last call made.
C21_NoRetry ==
  last.op \in {"BeginWithTx", "BeginWithTxAndBatch", "Commit", "Rollback"} =>
    /\ \A call \in StoreCalls : Len(Only(last.calls, call)) <= 1
    /\ \A i \in 1..Len(last.calls) :
         (last.calls[i].call \in {"Begin", "tx.Commit", "tx.Rollback"}
            /\ last.calls[i].ans # "ok") => i = Len(last.calls)

\* C21 witness: a Commit that sent a batch and closed the stream, and whose
\* tx.Commit failed
C21_Witness ==
  /\ last.op = "Commit"
  /\ Len(Only(last.calls, "tx.SendBatch")) = 1
  /\ Len(Only(last.calls, "results.Close")) = 1
  /\ Len(Only(last.calls, "tx.Commit")) = 1
  /\ last.calls[Len(last.calls)].ans # "ok"
  /\ last.err = ErrCommitTx

\* results.Close() by the caller of SendBatch: a method call on the nil
\* interface value panics
CloseOf(results) ==
  IF results = "nil" THEN "panic: nil pointer dereference" ELSE "closed"

\* C22: SendBatch on the Batch variant makes no call of the store, leaves the
\* accumulator as it is, and returns a result object that the caller can
\* close.
C22_SendBatchNoOp ==
  [][ (last'.op = "SendBatch" /\ last'.variant = "Batch") =>
        /\ last'.calls = <<>>
        /\ batches' = batches
        /\ CloseOf(last'.results) = "closed" ]_vars

\* C23: an enclosing operation that began a unit of work and deferred
\* GracefulRollback(ctx, &err) ends, whether it panics, returns an error of its
\* own or returns what Commit returned, with its transaction either committed
\* and never rolled back, or not committed and with exactly one Rollback
\* invoked on it, by the deferred call and by no step before it.
C23_CommittedOrRolledBack ==
  [][ IF last'.op = "GracefulRollback"
      THEN LET t  == Innermost(last'.ctx, txKey)
               rb == Only(last'.calls, "tx.Rollback")
           IN \/ txs'[t] = "committed" /\ Len(rb) = 0
              \/ txs'[t] # "committed" /\ Len(rb) = 1 /\ rb[1].tx = t
      ELSE Len(Only(last'.calls, "tx.Rollback")) = 0 ]_vars

\* C23 witness: the operation returned the error of a failed Commit and the
\* deferred call invoked Rollback
C23_Witness ==
  /\ last.op = "GracefulRollback"
  /\ last.errRef \in {ErrExecBatch, ErrCommitTx}
  /\ Len(Only(last.calls, "tx.Rollback")) = 1
  /\ txs[Innermost(last.ctx, txKey)] # "committed"

\* C24: Rollback on a context with a transaction and a non-empty accumulator
\* makes one call, Rollback on the handle, and sends no batch; the statements
\* queued by the Batch variant reach the store in no call but Commit's.
C24_RollbackSendsNothing ==
  /\ (last.op = "Rollback" /\ Attached(last.ctx, txKey) /\ BatchLen(last.ctx) > 0) =>
       /\ Len(last.calls) = 1
       /\ last.calls[1].call = "tx.Rollback"
       /\ last.calls[1].tx = Innermost(last.ctx, txKey)
  /\ (\E i \in 1..Len(last.calls) :
        last.calls[i].call = "tx.SendBatch" \/ last.calls[i].call = "results.Exec")
       => last.op = "Commit"
  /\ (last.op \in {"Exec", "Query", "QueryRow"} /\ last.variant = "Batch") =>
       last.calls = <<>>

\* C24 witness: a failed Rollback on a context with two queued statements
C24_Witness ==
  /\ last.op = "Rollback"
  /\ Attached(last.ctx, txKey)
  /\ BatchLen(last.ctx) = 2
  /\ last.err = ErrRollbackTx

\* C25, as stated: Commit leaves the accumulator as it was, and the number of
\* results it reads always equals the length the accumulator had when the
\* batch was sent.
C25_DrainedEqualsLength ==
  [][ last'.op = "Commit" =>
        /\ batches' = batches
        /\ Asked(last'.calls, "tx.SendBatch") =>
             Len(Only(last'.calls, "results.Exec")) = BatchLen(last'.ctx) ]_vars

\* C25, amended: Commit leaves the accumulator as it was, whatever it returns;
\* the batch it sends is the accumulator's statements in their order; it reads
\* as many results as that length when no result fails, and stops at the first
\* result that fails.
C25_AccumulatorUnchanged ==
  [][ last'.op = "Commit" =>
        /\ batches' = batches
        /\ Asked(last'.calls, "tx.SendBatch") =>
             LET n     == BatchLen(last'.ctx)
                 sent  == Only(last'.calls, "tx.SendBatch")
                 reads == Only(last'.calls, "results.Exec")
             IN /\ sent[1].stmts = batches[ExtractBatch(ctxs, last'.ctx).batch]
                /\ Len(reads) <= n
                /\ (\A j \in 1..Len(reads) : reads[j].ans = "ok") => Len(reads) = n
                /\ Len(reads) < n => reads[Len(reads)].ans # "ok" ]_vars

\* C25 witness: of two queued statements the first result fails, and the
\* accumulator holds the two after Commit has returned
C25_Witness ==
  /\ last.op = "Commit"
  /\ last.err = ErrExecBatch
  /\ BatchLen(last.ctx) = 2
  /\ Len(Reads) = 1

\* C26: GracefulRollback that recovers a panic on a context with no
\* transaction calls u.Rollback, which returns ErrNoRollbackTx without a call
\* of the store; the error is dropped, the caller's error and the store are
\* left as they were, and the panic goes on with the value it had.
C26_PanicWithoutTx ==
  [][ (last'.op = "GracefulRollback" /\ last'.panicIn # "none"
         /\ ~Attached(last'.ctx, txKey)) =>
        /\ last'.calls = <<SC("u.Rollback", 0, 0, <<>>, ErrNoRollbackTx)>>
        /\ last'.panicOut = last'.panicIn
        /\ last'.err = "nil"
        /\ last'.errRefAfter = last'.errRef
        /\ UNCHANGED <<ctxs, txs, batches>> ]_vars

\* C26 witness: a panic recovered on a context with no transaction, while a
\* transaction is open on another context
C26_Witness ==
  /\ last.op = "GracefulRollback"
  /\ last.panicIn = "panic B"
  /\ last.panicOut = "panic B"
  /\ ~Attached(last.ctx, txKey)
  /\ \E t \in 1..Len(txs) : txs[t] = "open"

\* C27: on every context, for every length of the accumulator, every position
\* of a first failing result and every answer to tx.Commit, with a Close that
\* succeeds, Commit of package uow and Commit of package unit_of_work return
\* the same error and both invoke tx.Commit or both do not.
C27_CommitsAgree ==
  \A c \in Contexts, kind \in {"fail", "cancel"}, commitOk \in BOOLEAN :
    \A firstFail \in 0..BatchLen(c) :
      LET res == Answers(BatchLen(c), firstFail, kind)
          u   == uow_CommitRun(c, res, TRUE, commitOk)
          w   == unit_of_work_CommitRun(c, res, TRUE, commitOk)
      IN /\ u.err = w.err
         /\ u.err \in {"nil", ErrNoCommitTx, ErrExecBatch, ErrCommitTx}
         /\ Asked(u.calls, "tx.Commit") <=> Asked(w.calls, "tx.Commit")
         /\ Only(u.calls, "results.Exec") = Only(w.calls, "results.Exec")

\* C27 witness: unit_of_work's Commit has returned ErrExecBatch for the second
\* of two results, and uow's Commit returns it for the same answers
C27_Witness ==
  /\ last.op = "Commit"
  /\ last.pkg = "unit_of_work"
  /\ last.err = ErrExecBatch
  /\ BatchLen(last.ctx) = 2
  /\ Len(Reads) = 2
  /\ uow_CommitRun(last.ctx, Answers(2, 2, "fail"), TRUE, TRUE).err = ErrExecBatch

\* C28: a call of Shutdown whose context is not cancelled has returned only
\* when every message accepted into logChan has been handed to the underlying
\* logger; messages are handed in the order they were accepted; the channel is
\* closed once, however many calls of Shutdown are made.
C28_ShutdownDrains ==
  /\ async.closes <= 1
  /\ Len(async.handed) <= Len(async.accepted)
  /\ async.handed = SubSeq(async.accepted, 1, Len(async.handed))
  /\ \A i \in ShutdownCalls :
       (async.shut[i].pc = "returned" /\ ~async.shut[i].ctxDone) =>
         async.handed = async.accepted

\* C29: no logging call sends on the closed channel, whenever it is made.
C29_NoSendOnClosed ==
  "send on closed channel" \notin async.panics

\* the handler is passed the message of the read just before, which succeeded
HandledWasRead ==
  \A i \in 1..Len(consumer.events) :
    consumer.events[i].ev = "handle" =>
      /\ i > 1
      /\ consumer.events[i - 1] = [ev |-> "read", m |-> consumer.events[i].m, ok |-> TRUE]

\* C30: Consume leaves its loop only when ctx is cancelled, whatever reads and
\* Handle calls have failed; the handler is passed only messages whose read
\* succeeded; wg.Done is called once, on return, when a WaitGroup is given;
\* and once ctx is cancelled Consume returns.
C30_ConsumeEnds ==
  /\ [](/\ consumer.pc \in {"deferred", "returned"} => consumer.cancelled
        /\ consumer.dones = IF consumer.pc = "returned" /\ consumer.wg THEN 1 ELSE 0
        /\ HandledWasRead)
  /\ (consumer.cancelled ~> consumer.pc = "returned")

\* C30 witness: returned with a WaitGroup, after a read that failed and a
\* Handle that failed
C30_Witness ==
  /\ consumer.pc = "returned"
  /\ consumer.wg
  /\ consumer.dones = 1
  /\ \E i, j \in 1..Len(consumer.events) :
       /\ consumer.events[i].ev = "read" /\ ~consumer.events[i].ok
       /\ consumer.events[j].ev = "handle" /\ ~consumer.events[j].ok
====
